---- MODULE Spec2Model ----
(***************************************************************************)
(* Model of infinite-endpoint-status-proxy.mjs: the CORS allow-list, the   *)
(* HTTP request handler, and runChecks() with its three probes, each await *)
(* of the code being a place where the run is suspended.                   *)
(*                                                                         *)
(* Time is counted in milliseconds and advances by one timeout period per  *)
(* Tick.  A promise is "pending" until the network, the socket or the      *)
(* timer settles it; the continuation of the await runs as a later step    *)
(* (Resume), as a JavaScript microtask does.                               *)
(***************************************************************************)
EXTENDS Integers, Sequences, FiniteSets, TLC

VARIABLES
    ALLOW_ORIGINS,  \* the allow-list computed at startup
    env,            \* what the clients send and what the network can do
    alive,          \* FALSE once the process has terminated
    conn,           \* per connection: the GET /endpoint-status request in flight
    out             \* the outcome of the last request handled without awaiting

vars == <<ALLOW_ORIGINS, env, alive, conn, out>>

(***************************************************************************)
(* Bounds of the model.                                                    *)
(***************************************************************************)
\* Ticks a response body may still take after the timeout period has passed.
MaxOverrunTicks == 1

\* Connections that can carry a GET /endpoint-status request at a time.
Conns == {"c1"}

(***************************************************************************)
(* Configuration (lines 5-38).                                             *)
(***************************************************************************)
\* REQUEST_TIMEOUT_MS as set through the environment; the default is 7000.
REQUEST_TIMEOUT_MS == 500

TickMs == REQUEST_TIMEOUT_MS

DefaultCorsOrigin == <<"https://foxxone.one">>

\* String.prototype.trim over the pieces the model uses.
Trim(s) ==
    CASE s = " https://b.com " -> "https://b.com"
      [] s = " " -> ""
      [] OTHER -> s

RECURSIVE FilterBoolean(_)
FilterBoolean(s) ==
    IF s = <<>> THEN <<>>
    ELSE IF Head(s) = "" THEN FilterBoolean(Tail(s))
         ELSE <<Head(s)>> \o FilterBoolean(Tail(s))

\* CORS_ORIGIN.split(",").map(trim).filter(Boolean); pieces = <<>> stands for
\* an unset or empty CORS_ORIGIN, which falls back to the default.
ParseAllowOrigins(pieces) ==
    LET raw == IF pieces = <<>> THEN DefaultCorsOrigin ELSE pieces
    IN  FilterBoolean([i \in 1..Len(raw) |-> Trim(raw[i])])

\* Values of CORS_ORIGIN (already split at the commas) the model starts from.
CorsEnvs ==
    { <<>>,
      <<"https://a.com", " https://b.com ", "">>,
      <<"https://a.com", "*">>,
      <<"", " ">> }

CHECKS ==
    << [id |-> "infinite-evm", kind |-> "jsonrpc"],
       [id |-> "infinite-comet", kind |-> "tendermint"],
       [id |-> "infinite-grpc", kind |-> "tcp"],
       [id |-> "infinite-evm-testnet", kind |-> "jsonrpc"],
       [id |-> "infinite-comet-testnet", kind |-> "tendermint"],
       [id |-> "infinite-grpc-testnet", kind |-> "tcp"] >>

NumChecks == Len(CHECKS)

(***************************************************************************)
(* CORS (lines 40-57).                                                     *)
(***************************************************************************)
Includes(list, x) == \E i \in 1..Len(list) : list[i] = x

\* Mutant: any Origin sent is echoed.
resolveReflectsOrigin(allow, requestOrigin) ==
    IF Len(allow) = 0 THEN "*"
    ELSE IF Includes(allow, "*") THEN "*"
    ELSE IF requestOrigin = "" THEN allow[1]
    ELSE requestOrigin

resolveAllowedOrigin(allow, requestOrigin) ==
    IF Len(allow) = 0 THEN "*"
    ELSE IF Includes(allow, "*") THEN "*"
    ELSE IF requestOrigin = "" THEN allow[1]
    ELSE IF Includes(allow, requestOrigin) THEN requestOrigin
    ELSE allow[1]

(***************************************************************************)
(* Requests.  A header is <<>> when absent and <<value>> when present.     *)
(***************************************************************************)
Methods == {"GET", "POST", "OPTIONS"}
Urls == {"", "/healthz", "/healthz?probe=1", "/endpoint-status", "/nope", "//"}
HostHeaders == {<<>>, <<"bad host">>}
OriginHeaders == {<<>>, <<"https://b.com">>, <<"https://evil.com">>}

Requests == [method : Methods, url : Urls, host : HostHeaders, origin : OriginHeaders]

\* process.uptime() in milliseconds at the moment /healthz is served.
Uptimes == {0, 499, 500, 1500}

NoRequest == [method |-> "", url |-> "", host |-> <<>>, origin |-> <<>>]

\* line 142
RequestOrigin(req) == IF req.origin # <<>> THEN req.origin[1] ELSE ""

\* line 157: the base of the URL
BaseHost(req) == IF req.host # <<>> /\ req.host[1] # "" THEN req.host[1] ELSE "localhost"

\* new URL(url, "http://" + host): whether it parses, over the model's URLs.
\* "//" has an empty authority and a host with a space is no host: both throw.
UrlParses(url, host) == url # "//" /\ host # "bad host"

\* url.pathname of a URL that parses
Pathname(url) ==
    CASE url = "/healthz?probe=1" -> "/healthz"
      [] OTHER -> url

\* Math.round(ms / 1000)
MathRoundSeconds(ms) == (ms + 500) \div 1000

(***************************************************************************)
(* The request handler up to its first await (lines 141-191).              *)
(***************************************************************************)
Reply(status, error) ==
    [kind |-> "respond", status |-> status, error |-> error, ok |-> FALSE, uptime_s |-> 0]

\* Mutant: the path is dispatched before the method is checked.
HandlerPathFirst(req, uptimeMs) ==
    IF req.method = "OPTIONS" THEN Reply(204, "")
    ELSE IF req.url = "" THEN Reply(400, "missing_url")
    ELSE IF ~UrlParses(req.url, BaseHost(req))
         THEN [Reply(0, "") EXCEPT !.kind = "throw"]
    ELSE IF Pathname(req.url) \notin {"/healthz", "/endpoint-status"}
         THEN Reply(404, "not_found")
    ELSE IF req.method # "GET" THEN Reply(405, "method_not_allowed")
    ELSE IF Pathname(req.url) = "/healthz"
         THEN [Reply(200, "") EXCEPT !.ok = TRUE, !.uptime_s = MathRoundSeconds(uptimeMs)]
    ELSE [Reply(0, "") EXCEPT !.kind = "run"]

\* Mutant: /healthz answers after a round of checks, as /endpoint-status does.
HandlerHealthzRunsChecks(req, uptimeMs) ==
    IF req.method = "OPTIONS" THEN Reply(204, "")
    ELSE IF req.url = "" THEN Reply(400, "missing_url")
    ELSE IF ~UrlParses(req.url, BaseHost(req))
         THEN [Reply(0, "") EXCEPT !.kind = "throw"]
    ELSE IF req.method # "GET" THEN Reply(405, "method_not_allowed")
    ELSE IF Pathname(req.url) \in {"/healthz", "/endpoint-status"}
         THEN [Reply(0, "") EXCEPT !.kind = "run"]
    ELSE Reply(404, "not_found")

Handler(req, uptimeMs) ==
    IF req.method = "OPTIONS" THEN Reply(204, "")
    ELSE IF req.url = "" THEN Reply(400, "missing_url")
    ELSE IF ~UrlParses(req.url, BaseHost(req))
         THEN [Reply(0, "") EXCEPT !.kind = "throw"]
    ELSE IF req.method # "GET" THEN Reply(405, "method_not_allowed")
    ELSE IF Pathname(req.url) = "/healthz"
         THEN [Reply(200, "") EXCEPT !.ok = TRUE, !.uptime_s = MathRoundSeconds(uptimeMs)]
    ELSE IF Pathname(req.url) = "/endpoint-status"
         THEN [Reply(0, "") EXCEPT !.kind = "run"]
    ELSE Reply(404, "not_found")

(***************************************************************************)
(* JSON values, as far as `data?.error` and `data.error.message` look at   *)
(* them: the type, the number or truth value, the string or the message.   *)
(***************************************************************************)
JNull == [t |-> "null", n |-> 0, s |-> ""]
JBool(b) == [t |-> "bool", n |-> IF b THEN 1 ELSE 0, s |-> ""]
JNum(k) == [t |-> "num", n |-> k, s |-> ""]
JStr(x) == [t |-> "str", n |-> 0, s |-> x]
\* an object with a string member "message"
JObjMessage(m) == [t |-> "objmsg", n |-> 0, s |-> m]
\* an object without a member "message"
JObj == [t |-> "obj", n |-> 0, s |-> ""]

\* ToBoolean
Truthy(j) ==
    CASE j.t = "null" -> FALSE
      [] j.t = "bool" -> j.n = 1
      [] j.t = "num" -> j.n # 0
      [] j.t = "str" -> j.s # ""
      [] OTHER -> TRUE

\* The parsed body: an object with or without a member "error", or the value null.
DataResult == [isObject |-> TRUE, hasError |-> FALSE, error |-> JNull]
DataNull == [isObject |-> FALSE, hasError |-> FALSE, error |-> JNull]
DataError(j) == [isObject |-> TRUE, hasError |-> TRUE, error |-> j]

ErrorValues ==
    { JNull, JBool(FALSE), JNum(0), JStr(""), JStr("boom"),
      JObjMessage("method not found"), JObjMessage(""), JObj }

(***************************************************************************)
(* What settles a promise: value or reason, in one record shape.           *)
(***************************************************************************)
Resolved(http, data) == [aw |-> "resolved", http |-> http, data |-> data, err |-> ""]
Rejected(message) == [aw |-> "rejected", http |-> 0, data |-> DataNull, err |-> message]

FetchOutcomes == { Resolved(200, DataNull), Resolved(503, DataNull), Rejected("fetch failed") }
BodyOutcomes ==
    { Resolved(200, DataResult), Resolved(200, DataNull),
      Rejected("Unexpected token < in JSON at position 0") }
    \cup { Resolved(200, DataError(j)) : j \in ErrorValues }
SocketOutcomes == { Resolved(0, DataNull), Rejected("connect ECONNREFUSED") }

\* res.ok
ResOk(http) == http >= 200 /\ http <= 299

TimeoutMessage == "timeout after " \o ToString(REQUEST_TIMEOUT_MS) \o "ms"

(***************************************************************************)
(* The probes (lines 68-110): what the continuation of an await does with  *)
(* the settled promise.  "await": go on to res.json(); "return": the probe *)
(* returns Date.now() - start; "throw": the probe throws.                  *)
(***************************************************************************)
Go(kind, message) == [kind |-> kind, message |-> message]

\* Mutant: the body is tested for an error member, not for a truthy one.
probeJsonRpcErrorMember(phase, p) ==
    IF phase = "fetch"
    THEN IF p.aw = "rejected" THEN Go("throw", p.err)
         ELSE IF ~ResOk(p.http) THEN Go("throw", "HTTP " \o ToString(p.http))
         ELSE Go("await", "")
    ELSE IF p.aw = "rejected" THEN Go("throw", p.err)
         ELSE IF p.data.isObject /\ p.data.hasError
              THEN Go("throw",
                      IF p.data.error.t = "objmsg" /\ p.data.error.s # ""
                      THEN p.data.error.s ELSE "json-rpc error")
         ELSE Go("return", "")

probeJsonRpc(phase, p) ==
    IF phase = "fetch"
    THEN IF p.aw = "rejected" THEN Go("throw", p.err)
         ELSE IF ~ResOk(p.http) THEN Go("throw", "HTTP " \o ToString(p.http))
         ELSE Go("await", "")
    ELSE IF p.aw = "rejected" THEN Go("throw", p.err)
         ELSE IF p.data.isObject /\ p.data.hasError /\ Truthy(p.data.error)
              THEN Go("throw",
                      IF p.data.error.t = "objmsg" /\ p.data.error.s # ""
                      THEN p.data.error.s ELSE "json-rpc error")
         ELSE Go("return", "")

probeTendermintStatus(p) ==
    IF p.aw = "rejected" THEN Go("throw", p.err)
    ELSE IF ~ResOk(p.http) THEN Go("throw", "HTTP " \o ToString(p.http))
    ELSE Go("return", "")

probeTcp(p) ==
    IF p.aw = "rejected" THEN Go("throw", p.err) ELSE Go("return", "")

Probe(kind, phase, p) ==
    CASE kind = "jsonrpc" -> probeJsonRpc(phase, p)
      [] kind = "tendermint" -> probeTendermintStatus(p)
      [] OTHER -> probeTcp(p)

\* The first await of the probe of a check of this kind.
FirstPhase(kind) == IF kind = "tcp" THEN "connect" ELSE "fetch"

(***************************************************************************)
(* runChecks (lines 112-139).                                              *)
(***************************************************************************)
\* latency_ms: null
null == -1

IndexOf(statuses, id) ==
    IF \E i \in 1..Len(statuses) : statuses[i].id = id
    THEN CHOOSE i \in 1..Len(statuses) : statuses[i].id = id
    ELSE 0

\* statuses[id] = entry: a new key goes last, an old key keeps its place.
Put(statuses, entry) ==
    IF IndexOf(statuses, entry.id) = 0
    THEN Append(statuses, entry)
    ELSE [statuses EXCEPT ![IndexOf(statuses, entry.id)] = entry]

\* Mutant: the catch block records nothing.
LoopBodySkipsFailure(statuses, check, go, latencyMs) ==
    IF go.kind = "return"
    THEN [statuses |-> Put(statuses, [id |-> check.id, status |-> "UP",
                                       detail |-> "Latency " \o ToString(latencyMs) \o "ms",
                                       latency_ms |-> latencyMs]),
          threw |-> FALSE, message |-> ""]
    ELSE [statuses |-> statuses, threw |-> FALSE, message |-> ""]

\* Mutant: no try/catch around the probe.
LoopBodyRethrows(statuses, check, go, latencyMs) ==
    IF go.kind = "return"
    THEN [statuses |-> Put(statuses, [id |-> check.id, status |-> "UP",
                                       detail |-> "Latency " \o ToString(latencyMs) \o "ms",
                                       latency_ms |-> latencyMs]),
          threw |-> FALSE, message |-> ""]
    ELSE [statuses |-> statuses, threw |-> TRUE, message |-> go.message]

\* The body of the for loop: the try block's assignment or the catch block's.
\* Every value the probes throw is an Error, so the catch block takes its
\* message.  threw: the error left runChecks.
LoopBody(statuses, check, go, latencyMs) ==
    IF go.kind = "return"
    THEN [statuses |-> Put(statuses, [id |-> check.id, status |-> "UP",
                                       detail |-> "Latency " \o ToString(latencyMs) \o "ms",
                                       latency_ms |-> latencyMs]),
          threw |-> FALSE, message |-> ""]
    ELSE [statuses |-> Put(statuses, [id |-> check.id, status |-> "DOWN",
                                       detail |-> go.message,
                                       latency_ms |-> null]),
          threw |-> FALSE, message |-> ""]

(***************************************************************************)
(* State.                                                                  *)
(***************************************************************************)
NoPromise == [aw |-> "none", http |-> 0, data |-> DataNull, err |-> ""]
Pending == [aw |-> "pending", http |-> 0, data |-> DataNull, err |-> ""]

\* st: "idle", "running" (inside runChecks or just out of it), "responded".
\* idx: the check being probed; phase: the await the probe is suspended at;
\* p: the promise awaited; elapsed: Date.now() - start of the current probe;
\* threw/message: runChecks rejected; code/error: the response sent.
IdleConn ==
    [st |-> "idle", req |-> NoRequest, allowOrigin |-> "", idx |-> 0,
     phase |-> "none", p |-> NoPromise, elapsed |-> 0, statuses |-> <<>>,
     threw |-> FALSE, message |-> "", code |-> 0, error |-> ""]

NoOut ==
    [req |-> NoRequest, status |-> 0, error |-> "", allowOrigin |-> "",
     ok |-> FALSE, uptime_s |-> 0]

MaxElapsed == REQUEST_TIMEOUT_MS + MaxOverrunTicks * TickMs

Waiting(c) == conn[c].st = "running" /\ conn[c].p.aw = "pending"
\* the awaits wrapped in withTimeout
Raced(c) == conn[c].phase \in {"fetch", "connect"}
TimerDue(c) == Waiting(c) /\ Raced(c) /\ conn[c].elapsed >= REQUEST_TIMEOUT_MS
\* a continuation is ready to run
Ready(c) == conn[c].st = "running" /\ conn[c].p.aw # "pending"
\* the endpoint of the current check can answer now
Delivers(c) ==
    /\ Waiting(c)
    /\ CHECKS[conn[c].idx].id \notin env.silent
    /\ (env.timing = "any time" \/ conn[c].elapsed = 0)

(***************************************************************************)
(* Environments: the requests clients send, the outcomes the network has.  *)
(***************************************************************************)
StatusRequest == [method |-> "GET", url |-> "/endpoint-status", host |-> <<>>, origin |-> <<>>]

\* Every method on every URL under every Host header, without an Origin.
RouteRequests == {r \in Requests : r.origin = <<>>}

\* One request for each response the handler has, under every Origin header.
CorsRequests ==
    {r \in Requests :
        /\ r.host = <<>>
        /\ <<r.method, r.url>> \in
               { <<"OPTIONS", "/nope">>, <<"GET", "">>, <<"POST", "/healthz">>,
                 <<"GET", "/healthz">>, <<"GET", "/endpoint-status">>,
                 <<"GET", "/nope">> }}

\* env.clients: the requests the clients send.
ClientRequests ==
    CASE env.clients = "status" -> {StatusRequest}
      [] env.clients = "routes" -> RouteRequests
      [] OTHER -> CorsRequests

\* env.answers: "any" (every answer the probes distinguish) or "good".
FetchAnswers == IF env.answers = "any" THEN FetchOutcomes ELSE {Resolved(200, DataNull)}
BodyAnswers == IF env.answers = "any" THEN BodyOutcomes ELSE {Resolved(200, DataResult)}
SocketAnswers == IF env.answers = "any" THEN SocketOutcomes ELSE {Resolved(0, DataNull)}

\* env.timing: when an endpoint that answers does so: "any time", "at once or
\* never", or "at once" (before time passes).  env.silent: the endpoints
\* that never answer.
Environment(clients, answers, timing, silent) ==
    [clients |-> clients, answers |-> answers, timing |-> timing, silent |-> silent]

Start(pieces, environment) ==
    /\ ALLOW_ORIGINS = ParseAllowOrigins(pieces)
    /\ env = environment
    /\ alive = TRUE
    /\ conn = [c \in Conns |-> IdleConn]
    /\ out = NoOut

Init == Start(<<>>, Environment("status", "any", "any time", {}))

InitRoute == Start(<<>>, Environment("routes", "good", "at once or never", {}))

InitCors ==
    \E pieces \in CorsEnvs :
        Start(pieces, Environment("cors", "good", "at once", {"infinite-grpc"}))

InitSlow == Start(<<>>, Environment("status", "good", "any time", {}))

(***************************************************************************)
(* Actions.                                                                *)
(***************************************************************************)
\* runChecks starts the probe of check i (or has none left).
Enter(c, i, statuses) ==
    IF i <= NumChecks
    THEN [conn[c] EXCEPT !.idx = i, !.phase = FirstPhase(CHECKS[i].kind),
                         !.p = Pending, !.elapsed = 0, !.statuses = statuses]
    ELSE [conn[c] EXCEPT !.idx = i, !.phase = "none", !.p = NoPromise,
                         !.elapsed = 0, !.statuses = statuses]

\* A request arrives and the handler runs up to its first await (141-174).
\* process.uptime() is read only by /healthz.  A throw out of the async
\* handler is an unhandled rejection: no response is sent, and the process
\* terminates (fatal) or goes on, as Node is started.
Request(c, req) ==
    /\ alive
    /\ LET first == Handler(req, 0)
           allow == resolveAllowedOrigin(ALLOW_ORIGINS, RequestOrigin(req))
       IN  IF first.kind = "run"
           THEN /\ conn[c].st = "idle"
                /\ conn' = [conn EXCEPT ![c] =
                       [Enter(c, 1, <<>>) EXCEPT !.st = "running", !.req = req,
                                                 !.allowOrigin = allow]]
                /\ UNCHANGED <<out, alive>>
           ELSE \E uptimeMs \in (IF first.ok THEN Uptimes ELSE {0}),
                   fatal \in (IF first.kind = "throw" THEN BOOLEAN ELSE {FALSE}) :
                    LET h == Handler(req, uptimeMs)
                    IN  /\ out' = [req |-> req, status |-> h.status, error |-> h.error,
                                   allowOrigin |-> IF h.kind = "throw" THEN "" ELSE allow,
                                   ok |-> h.ok, uptime_s |-> h.uptime_s]
                        /\ alive' = (h.kind # "throw" \/ ~fatal)
                        /\ UNCHANGED conn
    /\ UNCHANGED <<ALLOW_ORIGINS, env>>

Settle(c, outcome) ==
    /\ conn' = [conn EXCEPT ![c].p = outcome]
    /\ UNCHANGED <<ALLOW_ORIGINS, env, alive, out>>

\* fetch() resolves with the response headers or rejects (70-82, 91).
FetchSettles(c, outcome) ==
    /\ alive /\ Delivers(c) /\ conn[c].phase = "fetch"
    /\ outcome \in FetchAnswers
    /\ Settle(c, outcome)

\* res.json() resolves with the parsed body or rejects (84).
BodySettles(c, outcome) ==
    /\ alive /\ Delivers(c) /\ conn[c].phase = "json"
    /\ outcome \in BodyAnswers
    /\ Settle(c, outcome)

\* the socket emits "connect" or "error" (101-105).
SocketSettles(c, outcome) ==
    /\ alive /\ Delivers(c) /\ conn[c].phase = "connect"
    /\ outcome \in SocketAnswers
    /\ Settle(c, outcome)

\* withTimeout's timer rejects the race (59-66).
TimerFires(c) ==
    /\ alive /\ TimerDue(c)
    /\ Settle(c, Rejected(TimeoutMessage))

\* Time passes: no timer is due and no continuation is waiting to run.
Tick ==
    /\ alive
    /\ \E c \in Conns : Waiting(c) /\ conn[c].elapsed < MaxElapsed
    /\ \A c \in Conns : ~TimerDue(c) /\ (conn[c].st = "running" => Waiting(c))
    /\ \A c \in Conns : ~(env.timing = "at once" /\ Delivers(c))
    /\ conn' = [c \in Conns |->
                   IF Waiting(c) /\ conn[c].elapsed < MaxElapsed
                   THEN [conn[c] EXCEPT !.elapsed = @ + TickMs]
                   ELSE conn[c]]
    /\ UNCHANGED <<ALLOW_ORIGINS, env, alive, out>>

\* The continuation of the await: the probe goes on, and when it returns or
\* throws, the loop body records the outcome and runChecks takes the next check.
Resume(c) ==
    /\ alive
    /\ conn[c].st = "running" /\ conn[c].p.aw \in {"resolved", "rejected"}
    /\ LET check == CHECKS[conn[c].idx]
           go == Probe(check.kind, conn[c].phase, conn[c].p)
           body == LoopBody(conn[c].statuses, check, go, conn[c].elapsed)
       IN  conn' = [conn EXCEPT ![c] =
               IF go.kind = "await"
               THEN [conn[c] EXCEPT !.phase = "json", !.p = Pending]
               ELSE IF body.threw
               THEN [conn[c] EXCEPT !.phase = "none", !.p = NoPromise, !.elapsed = 0,
                                    !.statuses = body.statuses,
                                    !.threw = TRUE, !.message = body.message]
               ELSE Enter(c, conn[c].idx + 1, body.statuses)]
    /\ UNCHANGED <<ALLOW_ORIGINS, env, alive, out>>

\* runChecks has returned or thrown: the handler answers (174-186).
Respond(c) ==
    /\ alive
    /\ conn[c].st = "running" /\ conn[c].p.aw = "none"
    /\ conn' = [conn EXCEPT ![c] =
           IF conn[c].threw
           THEN [conn[c] EXCEPT !.st = "responded", !.code = 500,
                                !.error = "status_check_failed"]
           ELSE [conn[c] EXCEPT !.st = "responded", !.code = 200]]
    /\ UNCHANGED <<ALLOW_ORIGINS, env, alive, out>>

\* The client has the response; the connection can carry the next request.
Close(c) ==
    /\ alive
    /\ conn[c].st = "responded"
    /\ conn' = [conn EXCEPT ![c] = IdleConn]
    /\ UNCHANGED <<ALLOW_ORIGINS, env, alive, out>>

Next ==
    \/ \E c \in Conns, req \in ClientRequests : Request(c, req)
    \/ \E c \in Conns, outcome \in FetchOutcomes : FetchSettles(c, outcome)
    \/ \E c \in Conns, outcome \in BodyOutcomes : BodySettles(c, outcome)
    \/ \E c \in Conns, outcome \in SocketOutcomes : SocketSettles(c, outcome)
    \/ \E c \in Conns : TimerFires(c)
    \/ Tick
    \/ \E c \in Conns : Resume(c)
    \/ \E c \in Conns : Respond(c)
    \/ \E c \in Conns : Close(c)

Spec == Init /\ [][Next]_vars

SpecRoute == InitRoute /\ [][Next]_vars

SpecCors == InitCors /\ [][Next]_vars

\* Timers fire, time passes and continuations run; the network owes nothing.
Fairness ==
    /\ WF_vars(Tick)
    /\ \A c \in Conns : WF_vars(TimerFires(c))
    /\ \A c \in Conns : WF_vars(Resume(c))
    /\ \A c \in Conns : WF_vars(Respond(c))

LiveSpec == InitSlow /\ [][Next]_vars /\ Fairness

(***************************************************************************)
(* Vocabulary of the properties.                                           *)
(***************************************************************************)
Keys(statuses) == [i \in 1..Len(statuses) |-> statuses[i].id]
RegistryIds == [i \in 1..NumChecks |-> CHECKS[i].id]
Members(list) == {list[i] : i \in 1..Len(list)}

\* runChecks has returned its report (the handler may have sent it already)
Returned(c) ==
    /\ conn[c].st \in {"running", "responded"}
    /\ conn[c].p.aw = "none"
    /\ ~conn[c].threw

\* the responses that are out: what the last request got, what a connection got
Sent ==
    (IF out.status # 0
     THEN {[req |-> out.req, status |-> out.status, allowOrigin |-> out.allowOrigin]}
     ELSE {})
    \cup {[req |-> conn[c].req, status |-> conn[c].code,
           allowOrigin |-> conn[c].allowOrigin] :
              c \in {d \in Conns : conn[d].st = "responded"}}

KnownPaths == {"/healthz", "/endpoint-status"}
\* the request line gives a URL and the URL parses
Parsed(req) == req.url # "" /\ UrlParses(req.url, BaseHost(req))
IsHealthzGet(req) == req.method = "GET" /\ Parsed(req) /\ Pathname(req.url) = "/healthz"

\* the step is the continuation of connection c's await
Resumed(c) == conn[c].st = "running" /\ Ready(c) /\ conn[c].p.aw # "none" /\ conn'[c] # conn[c]
\* ... and it has recorded the outcome of the check it was at
Recorded(c) ==
    /\ Len(conn'[c].statuses) = Len(conn[c].statuses) + 1
    /\ conn'[c].statuses[Len(conn'[c].statuses)].id = CHECKS[conn[c].idx].id
    /\ \A i \in 1..Len(conn[c].statuses) : conn'[c].statuses[i] = conn[c].statuses[i]
NewEntry(c) == conn'[c].statuses[Len(conn'[c].statuses)]
IsDown(e, detail) == e.status = "DOWN" /\ e.latency_ms = null /\ e.detail = detail
IsUp(e, latencyMs) ==
    /\ e.status = "UP" /\ e.latency_ms = latencyMs
    /\ e.detail = "Latency " \o ToString(latencyMs) \o "ms"

(***************************************************************************)
(* C1: whenever runChecks() has returned, statuses has exactly one entry   *)
(* per registry id, in registry order, whatever the probes did.            *)
(***************************************************************************)
C1_StatusesMatchRegistry ==
    \A c \in Conns : Returned(c) => Keys(conn[c].statuses) = RegistryIds

\* a report sent with 200 that mixes successes, failures and timeouts
C1_Witness ==
    \E c \in Conns :
        /\ conn[c].st = "responded" /\ conn[c].code = 200
        /\ \E i, j, k \in 1..Len(conn[c].statuses) :
              /\ conn[c].statuses[i].status = "UP"
              /\ conn[c].statuses[j].detail = TimeoutMessage
              /\ conn[c].statuses[k].detail = "connect ECONNREFUSED"

(***************************************************************************)
(* C2: a probe that has not produced its result within REQUEST_TIMEOUT_MS  *)
(* yields the timeout outcome: no probe is still awaited after the timeout *)
(* period, and no probe reports UP with a latency beyond it.               *)
(***************************************************************************)
C2_TimeoutCoversWholeProbe ==
    \A c \in Conns :
        /\ conn[c].st = "running" /\ conn[c].p.aw # "none"
              => conn[c].elapsed <= REQUEST_TIMEOUT_MS
        /\ \A i \in 1..Len(conn[c].statuses) :
              conn[c].statuses[i].status = "UP"
                  => conn[c].statuses[i].latency_ms <= REQUEST_TIMEOUT_MS

(***************************************************************************)
(* C3: every failure of a probe (a rejected fetch, body or socket, the     *)
(* timeout, a non-success HTTP status, a JSON-RPC error object) is         *)
(* recorded by runChecks as DOWN with latency_ms null for that check and   *)
(* leaves runChecks running; no DOWN entry has a latency; the request is   *)
(* answered 200 with the full report, and 500 only when runChecks threw.   *)
(***************************************************************************)
ProbeFailed(c) ==
    \/ conn[c].p.aw = "rejected"
    \/ /\ conn[c].p.aw = "resolved" /\ conn[c].phase = "fetch"
       /\ conn[c].p.http \notin 200..299
    \/ /\ conn[c].p.aw = "resolved" /\ conn[c].phase = "json"
       /\ conn[c].p.data.hasError /\ conn[c].p.data.error.t \in {"obj", "objmsg"}

C3_FailuresStayInRunChecks ==
    /\ [](\A c \in Conns :
            /\ ~conn[c].threw
            /\ conn[c].st = "responded"
                  => conn[c].code = 200 /\ Len(conn[c].statuses) = NumChecks
            /\ \A i \in 1..Len(conn[c].statuses) :
                  conn[c].statuses[i].status = "DOWN"
                      => conn[c].statuses[i].latency_ms = null)
    /\ [][\A c \in Conns :
            Resumed(c) /\ ProbeFailed(c)
                => /\ Recorded(c)
                   /\ NewEntry(c).status = "DOWN" /\ NewEntry(c).latency_ms = null
                   /\ conn'[c].st = "running" /\ ~conn'[c].threw]_vars

\* a 200 report that holds a timeout, a transport error, an HTTP status, a
\* malformed body and a JSON-RPC error
C3_Witness ==
    \E c \in Conns :
        /\ conn[c].st = "responded" /\ conn[c].code = 200
        /\ {TimeoutMessage, "fetch failed", "HTTP 503", "method not found",
            "Unexpected token < in JSON at position 0"}
              \subseteq {conn[c].statuses[i].detail : i \in 1..Len(conn[c].statuses)}

(***************************************************************************)
(* C4: a check that fails, times out or never completes does not keep the  *)
(* later checks from being probed: a run that is at check i gets to check  *)
(* i + 1.                                                                  *)
(***************************************************************************)
C4_LaterChecksAreProbed ==
    \A c \in Conns : \A i \in 1..(NumChecks - 1) :
        (conn[c].st = "running" /\ conn[c].idx = i) ~> (conn[c].idx = i + 1)

(***************************************************************************)
(* C5: on every response sent, access-control-allow-origin is "*" if the   *)
(* allow-list is empty or holds "*"; else the request's Origin if the list *)
(* holds it; else the first configured origin.  An unlisted Origin is not  *)
(* echoed.                                                                 *)
(***************************************************************************)
C5_AllowOriginFollowsAllowList ==
    \A r \in Sent :
        /\ r.allowOrigin =
              IF ALLOW_ORIGINS = <<>> \/ "*" \in Members(ALLOW_ORIGINS) THEN "*"
              ELSE IF r.req.origin # <<>> /\ r.req.origin[1] \in Members(ALLOW_ORIGINS)
                   THEN r.req.origin[1]
              ELSE Head(ALLOW_ORIGINS)
        /\ r.req.origin # <<>> /\ r.req.origin[1] \notin Members(ALLOW_ORIGINS)
              => r.allowOrigin # r.req.origin[1]

\* a listed Origin echoed on a 200 report, an unlisted one answered with the
\* first configured origin on a 404
C5_Witness ==
    /\ ALLOW_ORIGINS = <<"https://a.com", "https://b.com">>
    /\ \E c \in Conns :
          /\ conn[c].st = "responded" /\ conn[c].code = 200
          /\ conn[c].req.origin = <<"https://b.com">>
          /\ conn[c].allowOrigin = "https://b.com"
    /\ out.status = 404 /\ out.req.origin = <<"https://evil.com">>
    /\ out.allowOrigin = "https://a.com"

(***************************************************************************)
(* C6: a GET of /healthz (with a URL that parses) is answered 200 with     *)
(* ok: true and a non-negative integer uptime; serving it runs no probe    *)
(* and touches no request in flight; and it can be served in every state   *)
(* of a live process, whatever the /endpoint-status requests are doing.    *)
(***************************************************************************)
C6_HealthzAlwaysServed ==
    /\ [](IsHealthzGet(out.req)
            => out.status = 200 /\ out.ok /\ out.uptime_s \in Nat)
    /\ [](alive => \A req \in {r \in ClientRequests : IsHealthzGet(r)} :
                      ENABLED (\E c \in Conns : Request(c, req)))
    /\ [][out' # out /\ IsHealthzGet(out'.req) => conn' = conn]_vars

\* /healthz answered (uptime rounded up to 1 s) with a request in flight
\* whose probe has timed out and whose next one is awaited past the timeout
C6_Witness ==
    /\ IsHealthzGet(out.req) /\ out.status = 200 /\ out.uptime_s = 1
    /\ \E c \in Conns :
          /\ Waiting(c) /\ conn[c].elapsed > REQUEST_TIMEOUT_MS
          /\ \E i \in 1..Len(conn[c].statuses) :
                conn[c].statuses[i].detail = TimeoutMessage

(***************************************************************************)
(* C7 as claimed: a request other than OPTIONS to an unrecognized path is  *)
(* answered 404 not_found, and 405 is sent only on a known path.           *)
(***************************************************************************)
C7_UnknownPathIs404 ==
    out.req.method \in {"GET", "POST"} /\ Parsed(out.req)
        => /\ Pathname(out.req.url) \notin KnownPaths
                => out.status = 404 /\ out.error = "not_found"
           /\ out.status = 405 => Pathname(out.req.url) \in KnownPaths

(***************************************************************************)
(* C7 as amended: the method is checked before the path.  A request with a *)
(* URL that parses and a method other than GET and OPTIONS is answered 405 *)
(* method_not_allowed whatever its path; a GET of an unrecognized path is  *)
(* answered 404 not_found; 404 and 405 are sent in no other case.          *)
(***************************************************************************)
C7_MethodCheckedBeforePath ==
    /\ out.req.method = "POST" /\ Parsed(out.req)
          => out.status = 405 /\ out.error = "method_not_allowed"
    /\ out.req.method = "GET" /\ Parsed(out.req)
          /\ Pathname(out.req.url) \notin KnownPaths
          => out.status = 404 /\ out.error = "not_found"
    /\ out.status = 405 => out.req.method \notin {"GET", "OPTIONS"}
    /\ out.status = 404
          => out.req.method = "GET" /\ Pathname(out.req.url) \notin KnownPaths

\* POST to an unrecognized path answered 405
C7_Witness ==
    /\ out.req.method = "POST" /\ out.req.url = "/nope" /\ out.req.host = <<>>
    /\ out.status = 405

(***************************************************************************)
(* C8: a request other than OPTIONS whose URL is missing or does not parse *)
(* is answered 400 missing_url, and the process lives on.                  *)
(***************************************************************************)
C8_BadUrlIs400 ==
    out.req.method \in {"GET", "POST"} /\ ~Parsed(out.req)
        => out.status = 400 /\ out.error = "missing_url" /\ alive

(***************************************************************************)
(* C9 as claimed: a JSON-RPC body with an error member, whatever its       *)
(* value, is recorded DOWN with the error's message or "json-rpc error";   *)
(* UP is recorded only for a body without an error member.                 *)
(***************************************************************************)
BodyParsed(c) == Resumed(c) /\ conn[c].phase = "json" /\ conn[c].p.aw = "resolved"
ErrorDetail(j) == IF j.t = "objmsg" /\ j.s # "" THEN j.s ELSE "json-rpc error"

C9_AnyErrorMemberIsDown ==
    [][\A c \in Conns :
          BodyParsed(c)
              => /\ Recorded(c)
                 /\ IF conn[c].p.data.hasError
                    THEN IsDown(NewEntry(c), ErrorDetail(conn[c].p.data.error))
                    ELSE IsUp(NewEntry(c), conn[c].elapsed)]_vars

(***************************************************************************)
(* C9 as amended: a JSON-RPC body whose error member is truthy (anything   *)
(* but null, false, 0 and the empty string) is recorded DOWN with          *)
(* latency_ms null and the error's message, or "json-rpc error" when it    *)
(* has none; a body with no error member, or a falsy one, is recorded UP.  *)
(***************************************************************************)
FalsyErrors == {JNull, JBool(FALSE), JNum(0), JStr("")}

C9_TruthyErrorMemberIsDown ==
    [][\A c \in Conns :
          BodyParsed(c)
              => /\ Recorded(c)
                 /\ IF conn[c].p.data.hasError /\ conn[c].p.data.error \notin FalsyErrors
                    THEN IsDown(NewEntry(c), ErrorDetail(conn[c].p.data.error))
                    ELSE IsUp(NewEntry(c), conn[c].elapsed)]_vars

\* the first JSON-RPC check recorded DOWN with the message of its error
\* object, the second one's body parsed with "error": null
C9_Witness ==
    \E c \in Conns :
        /\ conn[c].idx = 4 /\ conn[c].phase = "json" /\ conn[c].p.aw = "resolved"
        /\ conn[c].p.data = DataError(JNull)
        /\ IsDown(conn[c].statuses[1], "method not found")

(***************************************************************************)
(* C10: every GET /endpoint-status that is taken up is answered, given     *)
(* only that timers fire, time passes and continuations run.               *)
(***************************************************************************)
C10_StatusRequestIsAnswered ==
    \A c \in Conns : (conn[c].st = "running") ~> (conn[c].st = "responded")

====
